---- MODULE Spec2Model ----
(***************************************************************************)
(* Model of src/error_handling/error_handling.rs: the three fallible       *)
(* functions divide, parse_and_double and parse_and_double_custom_err, the *)
(* custom error enum MyError with its From<ParseIntError> conversion, and  *)
(* the four demonstration mains.                                           *)
(*                                                                         *)
(* A text token (&str) is a sequence of one-character strings.  An i32 is  *)
(* an integer in I32_MIN..I32_MAX.  The outcome of a call is a record      *)
(* tagged "Ok" or "Err" (a returned Result) or "Panic" (the call never     *)
(* returns: the thread unwinds and the process aborts).                    *)
(***************************************************************************)
EXTENDS Integers, Sequences, FiniteSets, TLC

VARIABLES
    overflow_checks, \* the build: TRUE = arithmetic overflow panics (dev profile),
                     \* FALSE = it wraps modulo 2^32 (release profile)
    program,         \* which program runs: "calls" (the functions called on
                     \* arbitrary inputs) or one of the four mains
    call,            \* the last call made by the "calls" program and its outcome
    pc,              \* a main's position: the number of the next statement
    result,          \* a main's local `result` (unwrap/expect demo)
    stdout,          \* the lines printed so far
    stderr,          \* the panic diagnostic, if any
    status           \* "running", "exited" (normal return of main) or "aborted"

vars == <<overflow_checks, program, call, pc, result, stdout, stderr, status>>

---------------------------------------------------------------------------
(* Bounds of the exploration *)

\* tokens over Alphabet up to this length are tried, beside BoundaryTokens
MaxLen == 3
\* divide is tried on every pair of -MaxSmall..MaxSmall, beside BoundaryInts
MaxSmall == 7

---------------------------------------------------------------------------
(* i32 arithmetic.  Every intermediate value below stays within i32, as  *)
(* it does in the machine: an overflow is detected before the operation,  *)
(* never after it.                                                         *)

I32_MAX == 2147483647
I32_MIN == -I32_MAX - 1

InI32(x) == I32_MIN <= x /\ x <= I32_MAX

\* the quotient of a by b # 0 rounded toward zero, for (a, b) # (I32_MIN, -1)
TruncQuot(a, b) ==
    IF a = 0 THEN 0
    ELSE IF (a < 0) = (b < 0) THEN a \div b
    ELSE IF b > 0 THEN (a + b - 1) \div b
    ELSE (a + b + 1) \div b

\* 2 * num reduced modulo 2^32 into i32, for a num whose double overflows
WrappingDouble(num) ==
    IF num > 0
    THEN ((num - (I32_MAX \div 2) - 1) - (I32_MAX \div 2) - 1) * 2
    ELSE ((num + (I32_MAX \div 2) + 1) + (I32_MAX \div 2) + 1) * 2

DoubleOverflows(num) == num > I32_MAX \div 2 \/ num < -(I32_MAX \div 2) - 1

---------------------------------------------------------------------------
(* Outcomes *)

Ok(v) == [tag |-> "Ok", val |-> v]
Err(e) == [tag |-> "Err", err |-> e]
Panic(m) == [tag |-> "Panic", msg |-> m]

\* `a / b` on i32 with b # 0: the quotient truncated toward zero; the one
\* quotient that does not fit, i32::MIN / -1, panics in every build
I32Div(a, b) ==
    IF a = I32_MIN /\ b = -1
    THEN Panic("attempt to divide with overflow")
    ELSE Ok(TruncQuot(a, b))

\* `num * 2` on i32: panics on overflow when the build checks overflow,
\* wraps otherwise
I32Double(num) ==
    IF ~DoubleOverflows(num) THEN Ok(num * 2)
    ELSE IF overflow_checks THEN Panic("attempt to multiply with overflow")
    ELSE Ok(WrappingDouble(num))

---------------------------------------------------------------------------
(* Text: digits, <i32 as FromStr>::from_str, <i32 as Display>::fmt *)

DigitChars == <<"0", "1", "2", "3", "4", "5", "6", "7", "8", "9">>
IsDigit(c) == \E i \in 1..10 : DigitChars[i] = c
DigitVal(c) == (CHOOSE i \in 1..10 : DigitChars[i] = c) - 1

ParseIntError(kind) == [kind |-> kind]

\* checked_mul(acc, 10), checked_add(mul, d), checked_sub(mul, d) fail:
MulTenOverflows(acc) == acc > I32_MAX \div 10 \/ acc < -(I32_MAX \div 10)
AddOverflows(mul, d) == mul > I32_MAX - d
SubOverflows(mul, d) == mul < I32_MIN + d

\* the digit loop of from_str: the accumulator stays within i32 at every
\* step (checked_mul, then checked_add or checked_sub; a negative number is
\* accumulated downward), and a non-digit is reported before the overflow
\* of the multiplication at that position
RECURSIVE ParseDigits(_, _, _, _)
ParseDigits(digits, i, acc, is_positive) ==
    IF i > Len(digits) THEN Ok(acc)
    ELSE LET c == digits[i]
             overflow == IF is_positive THEN "PosOverflow" ELSE "NegOverflow"
         IN  IF ~IsDigit(c) THEN Err(ParseIntError("InvalidDigit"))
             ELSE IF MulTenOverflows(acc) THEN Err(ParseIntError(overflow))
             ELSE IF is_positive
             THEN IF AddOverflows(acc * 10, DigitVal(c))
                  THEN Err(ParseIntError(overflow))
                  ELSE ParseDigits(digits, i + 1, acc * 10 + DigitVal(c), TRUE)
             ELSE IF SubOverflows(acc * 10, DigitVal(c))
                  THEN Err(ParseIntError(overflow))
                  ELSE ParseDigits(digits, i + 1, acc * 10 - DigitVal(c), FALSE)

\* s.parse::<i32>()
parse(s) ==
    IF Len(s) = 0 THEN Err(ParseIntError("Empty"))
    ELSE IF Len(s) = 1 /\ s[1] \in {"+", "-"} THEN Err(ParseIntError("InvalidDigit"))
    ELSE IF s[1] = "+" THEN ParseDigits(Tail(s), 1, 0, TRUE)
    ELSE IF s[1] = "-" THEN ParseDigits(Tail(s), 1, 0, FALSE)
    ELSE ParseDigits(s, 1, 0, TRUE)

\* Display of ParseIntError
ParseIntErrorText(e) ==
    CASE e.kind = "Empty" -> "cannot parse integer from empty string"
      [] e.kind = "InvalidDigit" -> "invalid digit found in string"
      [] e.kind = "PosOverflow" -> "number too large to fit in target type"
      [] e.kind = "NegOverflow" -> "number too small to fit in target type"

\* Debug of ParseIntError
ParseIntErrorDebug(e) == "ParseIntError { kind: " \o e.kind \o " }"

RECURSIVE NatText(_)
NatText(n) ==
    IF n < 10 THEN DigitChars[n + 1]
    ELSE NatText(n \div 10) \o DigitChars[(n % 10) + 1]

\* Display of i32: a minus sign, then the digits of the magnitude
I32Text(n) ==
    IF n >= 0 THEN NatText(n)
    ELSE LET q == TruncQuot(n, 10)
         IN  "-" \o (IF q = 0 THEN "" ELSE NatText(-q)) \o DigitChars[(q * 10 - n) + 1]

---------------------------------------------------------------------------
(* The functions.  Each returns [out, trace]: the outcome and the steps of *)
(* the body that were executed, in order.                                  *)

Ran(out, trace) == [out |-> out, trace |-> trace]

\* divide with the guard `a == 0 || b == 0`
divide_either_zero(a, b) ==
    IF a = 0 \/ b = 0
    THEN Ran(Err("Cannot divide by zero"), <<"b == 0">>)
    ELSE Ran(I32Div(a, b), <<"b == 0", "a / b">>)

divide(a, b) ==
    IF b = 0
    THEN Ran(Err("Cannot divide by zero"), <<"b == 0">>)
    ELSE Ran(I32Div(a, b), <<"b == 0", "a / b">>)

\* parse_and_double that replaces the parse failure by one of its own
parse_and_double_remapped(s) ==
    LET parsed == parse(s)
    IN  IF parsed.tag = "Err"
        THEN Ran(Err(ParseIntError("InvalidDigit")), <<"parse", "?">>)
        ELSE Ran(I32Double(parsed.val), <<"parse", "?", "num * 2">>)

parse_and_double(s) ==
    LET parsed == parse(s)
    IN  IF parsed.tag = "Err"
        THEN Ran(Err(parsed.err), <<"parse", "?">>)
        ELSE Ran(I32Double(parsed.val), <<"parse", "?", "num * 2">>)

\* enum MyError
DivisionByZero == [variant |-> "DivisionByZero"]
ParseError(e) == [variant |-> "ParseError", inner |-> e]

\* a conversion that drops the failure it is given
from_lossy(err) == ParseError(ParseIntError("InvalidDigit"))

\* impl From<ParseIntError> for MyError
from(err) == ParseError(err)

parse_and_double_custom_err(s) ==
    LET parsed == parse(s)
    IN  IF parsed.tag = "Err"
        THEN Ran(Err(from(parsed.err)), <<"parse", "?">>)
        ELSE IF parsed.val = 0
        THEN Ran(Err(DivisionByZero), <<"parse", "?", "num == 0">>)
        ELSE Ran(I32Double(parsed.val), <<"parse", "?", "num == 0", "num * 2">>)

---------------------------------------------------------------------------
(* Inputs *)

Alphabet == {"0", "1", "7", "-", "+", "x"}

RECURSIVE TokensOfLen(_)
TokensOfLen(n) ==
    IF n = 0 THEN {<<>>}
    ELSE {Append(t, c) : t \in TokensOfLen(n - 1), c \in Alphabet}

ShortTokens == UNION {TokensOfLen(n) : n \in 0..MaxLen}

T42 == <<"4", "2">>
TNotANumber == <<"n", "o", "t", "_", "a", "_", "n", "u", "m", "b", "e", "r">>

BoundaryTokens == {
    T42, TNotANumber,
    <<"2","1","4","7","4","8","3","6","4","7">>,
    <<"2","1","4","7","4","8","3","6","4","8">>,
    <<"+","2","1","4","7","4","8","3","6","4","7">>,
    <<"-","2","1","4","7","4","8","3","6","4","8">>,
    <<"-","2","1","4","7","4","8","3","6","4","9">>,
    <<"1","0","7","3","7","4","1","8","2","3">>,
    <<"1","0","7","3","7","4","1","8","2","4">>,
    <<"-","1","0","7","3","7","4","1","8","2","4">>,
    <<"-","1","0","7","3","7","4","1","8","2","5">>,
    <<"0","0","0","0","0","0","0","0","0","0","0","4","2">>,
    <<"9","9","9","9","9","9","9","9","9","9","x">>,
    <<"9","9","9","9","9","9","9","9","9","9","9">>,
    <<"-","0","0","0">>,
    <<" ","4","2">>
}

Tokens == ShortTokens \cup BoundaryTokens

BoundaryInts == {I32_MIN, I32_MIN + 1, -1073741824, 10, 1073741824, I32_MAX - 1, I32_MAX}

Ints == (-MaxSmall..MaxSmall) \cup BoundaryInts

---------------------------------------------------------------------------
(* The "calls" program: one of the functions is called on an arbitrary     *)
(* input, its outcome is observed and dropped, and the next call is made.  *)

NoCall == [fn |-> "none"]

Call_divide(a, b) ==
    /\ program = "calls"
    /\ call = NoCall
    /\ call' = [fn |-> "divide", a |-> a, b |-> b, ran |-> divide(a, b)]
    /\ UNCHANGED <<overflow_checks, program, pc, result, stdout, stderr, status>>

Call_parse_and_double(s) ==
    /\ program = "calls"
    /\ call = NoCall
    /\ call' = [fn |-> "parse_and_double", s |-> s, ran |-> parse_and_double(s)]
    /\ UNCHANGED <<overflow_checks, program, pc, result, stdout, stderr, status>>

Call_parse_and_double_custom_err(s) ==
    /\ program = "calls"
    /\ call = NoCall
    /\ call' = [fn |-> "parse_and_double_custom_err", s |-> s,
                ran |-> parse_and_double_custom_err(s)]
    /\ UNCHANGED <<overflow_checks, program, pc, result, stdout, stderr, status>>

\* the two parse-and-transform functions run side by side on one token
Call_side_by_side(s) ==
    /\ program = "calls"
    /\ call = NoCall
    /\ call' = [fn |-> "side_by_side", s |-> s,
                ran |-> parse_and_double(s),
                ran_custom |-> parse_and_double_custom_err(s)]
    /\ UNCHANGED <<overflow_checks, program, pc, result, stdout, stderr, status>>

\* the outcome goes out of scope
Drop ==
    /\ program = "calls"
    /\ call # NoCall
    /\ call' = NoCall
    /\ UNCHANGED <<overflow_checks, program, pc, result, stdout, stderr, status>>

---------------------------------------------------------------------------
(* The four mains.  A main is the sequence of its statements; pc is the    *)
(* number of the next one, and Len(body) + 1 is the return of main.        *)

Mains == {"main_divide", "main_propagate", "main_custom", "main_unwrap"}

\* fn main() of "Simple Error Handling with match"
main_divide == <<
    [op |-> "match_call", fn |-> "divide", args |-> <<10, 2>>],
    [op |-> "match_call", fn |-> "divide", args |-> <<10, 0>>] >>

\* fn main() of "Handling Errors with ? Operator"
main_propagate == <<
    [op |-> "let", fn |-> "parse_and_double", args |-> <<T42>>],
    [op |-> "match_result"],
    [op |-> "let", fn |-> "parse_and_double", args |-> <<TNotANumber>>],
    [op |-> "match_result"] >>

\* fn main() of "Defining Custom Errors": its arms match MyError, the error
\* type of parse_and_double_custom_err, the function the section's comment
\* calls "the updated parse_and_double"
main_custom == <<
    [op |-> "match_call", fn |-> "parse_and_double_custom_err", args |-> <<T42>>],
    [op |-> "match_call", fn |-> "parse_and_double_custom_err", args |-> <<TNotANumber>>] >>

\* the unwrap/expect main with expect applied to a token that parses
main_unwrap_parsing == <<
    [op |-> "unwrap", fn |-> "parse_and_double", args |-> <<T42>>],
    [op |-> "println"],
    [op |-> "expect", fn |-> "parse_and_double", args |-> <<T42>>,
     msg |-> "Failed to parse number"],
    [op |-> "println"] >>

\* fn main() of "Using unwrap and expect"
main_unwrap == <<
    [op |-> "unwrap", fn |-> "parse_and_double", args |-> <<T42>>],
    [op |-> "println"],
    [op |-> "expect", fn |-> "parse_and_double", args |-> <<TNotANumber>>,
     msg |-> "Failed to parse number"],
    [op |-> "println"] >>

Body ==
    CASE program = "main_divide" -> main_divide
      [] program = "main_propagate" -> main_propagate
      [] program = "main_custom" -> main_custom
      [] program = "main_unwrap" -> main_unwrap

\* the outcome of the call a statement makes
Eval(stmt) ==
    CASE stmt.fn = "divide" -> divide(stmt.args[1], stmt.args[2]).out
      [] stmt.fn = "parse_and_double" -> parse_and_double(stmt.args[1]).out
      [] stmt.fn = "parse_and_double_custom_err" ->
            parse_and_double_custom_err(stmt.args[1]).out

\* the line the arms of a main's match print for a returned outcome
ArmLine(out) ==
    IF out.tag = "Ok" THEN "Result: " \o I32Text(out.val)
    ELSE CASE program = "main_divide" -> "Error: " \o out.err
           [] program = "main_propagate" -> "Error: " \o ParseIntErrorText(out.err)
           [] program = "main_custom" ->
                IF out.err.variant = "DivisionByZero"
                THEN "Error: Division by zero"
                ELSE "Error: " \o ParseIntErrorText(out.err.inner)

\* a panic: the diagnostic goes to the error stream and the process aborts
\* where it stands
Abort(msg) ==
    /\ status' = "aborted"
    /\ stderr' = msg
    /\ UNCHANGED <<pc, result, stdout>>

AtStmt(op) ==
    /\ program \in Mains
    /\ status = "running"
    /\ pc <= Len(Body)
    /\ Body[pc].op = op

\* match f(..) { Ok(..) => println!(..), Err(..) => println!(..) }
ExecMatchCall ==
    /\ AtStmt("match_call")
    /\ LET out == Eval(Body[pc])
       IN  IF out.tag = "Panic" THEN Abort(out.msg)
           ELSE /\ stdout' = Append(stdout, ArmLine(out))
                /\ pc' = pc + 1
                /\ UNCHANGED <<result, stderr, status>>
    /\ UNCHANGED <<overflow_checks, program, call>>

\* let result = f(..);
ExecLet ==
    /\ AtStmt("let")
    /\ LET out == Eval(Body[pc])
       IN  IF out.tag = "Panic" THEN Abort(out.msg)
           ELSE /\ result' = out
                /\ pc' = pc + 1
                /\ UNCHANGED <<stdout, stderr, status>>
    /\ UNCHANGED <<overflow_checks, program, call>>

\* a match whose Err arm prints nothing
ExecMatchResult_silent ==
    /\ AtStmt("match_result")
    /\ stdout' = IF result.tag = "Ok" THEN Append(stdout, ArmLine(result)) ELSE stdout
    /\ pc' = pc + 1
    /\ UNCHANGED <<overflow_checks, program, call, result, stderr, status>>

\* match result { Ok(..) => println!(..), Err(..) => println!(..) }
ExecMatchResult ==
    /\ AtStmt("match_result")
    /\ stdout' = Append(stdout, ArmLine(result))
    /\ pc' = pc + 1
    /\ UNCHANGED <<overflow_checks, program, call, result, stderr, status>>

\* let result = f(..).unwrap();
\* (the diagnostic is written here without the backquotes the library puts
\* around Result::unwrap() and Err)
ExecUnwrap ==
    /\ AtStmt("unwrap")
    /\ LET out == Eval(Body[pc])
       IN  CASE out.tag = "Panic" -> Abort(out.msg)
             [] out.tag = "Err" ->
                    Abort("called Result::unwrap() on an Err value: "
                          \o ParseIntErrorDebug(out.err))
             [] out.tag = "Ok" ->
                    /\ result' = out.val
                    /\ pc' = pc + 1
                    /\ UNCHANGED <<stdout, stderr, status>>
    /\ UNCHANGED <<overflow_checks, program, call>>

\* let result = f(..).expect(msg);
ExecExpect ==
    /\ AtStmt("expect")
    /\ LET out == Eval(Body[pc])
       IN  CASE out.tag = "Panic" -> Abort(out.msg)
             [] out.tag = "Err" ->
                    Abort(Body[pc].msg \o ": " \o ParseIntErrorDebug(out.err))
             [] out.tag = "Ok" ->
                    /\ result' = out.val
                    /\ pc' = pc + 1
                    /\ UNCHANGED <<stdout, stderr, status>>
    /\ UNCHANGED <<overflow_checks, program, call>>

\* println!("Result: {}", result);
ExecPrintln ==
    /\ AtStmt("println")
    /\ stdout' = Append(stdout, "Result: " \o I32Text(result))
    /\ pc' = pc + 1
    /\ UNCHANGED <<overflow_checks, program, call, result, stderr, status>>

\* the closing brace of main: the process exits normally
Return ==
    /\ program \in Mains
    /\ status = "running"
    /\ pc = Len(Body) + 1
    /\ status' = "exited"
    /\ UNCHANGED <<overflow_checks, program, call, pc, result, stdout, stderr>>

MainStep ==
    \/ ExecMatchCall
    \/ ExecLet
    \/ ExecMatchResult
    \/ ExecUnwrap
    \/ ExecExpect
    \/ ExecPrintln
    \/ Return

---------------------------------------------------------------------------

Programs == {"calls"} \cup Mains

Init ==
    /\ overflow_checks \in BOOLEAN
    /\ program \in Programs
    /\ call = NoCall
    /\ pc = 1
    /\ result = 0
    /\ stdout = <<>>
    /\ stderr = ""
    /\ status = "running"

Next ==
    \/ \E a \in Ints, b \in Ints : Call_divide(a, b)
    \/ \E s \in Tokens : Call_parse_and_double(s)
    \/ \E s \in Tokens : Call_parse_and_double_custom_err(s)
    \/ \E s \in Tokens : Call_side_by_side(s)
    \/ Drop
    \/ MainStep

Spec == Init /\ [][Next]_vars

\* a running main is always scheduled: nothing else runs in the process
FairSpec == Spec /\ WF_vars(MainStep)

---------------------------------------------------------------------------
(* Properties *)

Out == call.ran.out
Trace == call.ran.trace
Steps(trace) == {trace[i] : i \in 1..Len(trace)}

\* q is the quotient of a by b rounded toward zero: the remainder a - q * b
\* is smaller than b in magnitude and is zero or has the sign of a
NegAbs(x) == IF x > 0 THEN -x ELSE x
IsTruncQuot(a, b, q) ==
    LET r == a - q * b
    IN  /\ NegAbs(r) > NegAbs(b)
        /\ (r = 0 \/ (r < 0) = (a < 0))

\* v is exactly twice n
IsDouble(n, v) == v % 2 = 0 /\ v \div 2 = n

\* C1: for all i32 a, b with b # 0, divide(a, b) returns Ok wrapping the
\* quotient a / b rounded toward zero, the pair (i32::MIN, -1) included.
C1_DivideSucceeds ==
    (call.fn = "divide" /\ call.b # 0) =>
        /\ Out.tag = "Ok"
        /\ IsTruncQuot(call.a, call.b, Out.val)

\* C2: divide(a, 0) returns Err("Cannot divide by zero") for every a without
\* performing the division, and divide returns Err only when b = 0.
C2_DivideByZero ==
    call.fn = "divide" =>
        /\ call.b = 0 =>
              /\ Out = Err("Cannot divide by zero")
              /\ "a / b" \notin Steps(Trace)
        /\ Out.tag = "Err" => call.b = 0

C2_Witness ==
    /\ call.fn = "divide"
    /\ call.a = I32_MIN
    /\ call.b = 0
    /\ Out.tag = "Err"

\* C3: for every token that parses as the i32 n, parse_and_double returns Ok
\* wrapping exactly 2 * n, also when 2 * n lies outside i32: no abort and
\* no wrapped-around value.
C3_DoubleExact ==
    (call.fn = "parse_and_double" /\ parse(call.s).tag = "Ok") =>
        /\ Out.tag = "Ok"
        /\ IsDouble(parse(call.s).val, Out.val)

\* C4: for every token that does not parse as an i32, parse_and_double
\* returns Err wrapping the parse step's failure unchanged and never runs
\* the doubling step; it returns Err in no other case.
C4_PropagatesUnchanged ==
    call.fn = "parse_and_double" =>
        /\ parse(call.s).tag = "Err" =>
              /\ Out = Err(parse(call.s).err)
              /\ "num * 2" \notin Steps(Trace)
        /\ Out.tag = "Err" => parse(call.s).tag = "Err"

C4_Witness ==
    /\ call.fn = "parse_and_double"
    /\ call.s = <<"-">>
    /\ Out = Err(ParseIntError("InvalidDigit"))

\* C5: parse_and_double_custom_err gives every token exactly one of three
\* outcomes: Err(ParseError(e)) when the parse fails with e,
\* Err(DivisionByZero) when it parses to zero, Ok(2 * n) when it parses to
\* a non-zero n.
C5_ThreeOutcomes ==
    call.fn = "parse_and_double_custom_err" =>
        LET parsed == parse(call.s)
        IN  /\ parsed.tag = "Err" => Out = Err(ParseError(parsed.err))
            /\ (parsed.tag = "Ok" /\ parsed.val = 0) => Out = Err(DivisionByZero)
            /\ (parsed.tag = "Ok" /\ parsed.val # 0) =>
                  /\ Out.tag = "Ok"
                  /\ IsDouble(parsed.val, Out.val)

\* C6: on one token, when parse_and_double fails with e,
\* parse_and_double_custom_err fails with ParseError(e) carrying the same e;
\* when parse_and_double succeeds on a non-zero parse,
\* parse_and_double_custom_err succeeds with the identical value; the two
\* differ only on tokens that parse to zero, where the first returns Ok(0)
\* and the second Err(DivisionByZero).
C6_SideBySide ==
    call.fn = "side_by_side" =>
        LET p == call.ran.out
            c == call.ran_custom.out
            parsed == parse(call.s)
        IN  /\ p.tag = "Err" =>
                  /\ c.tag = "Err"
                  /\ c.err.variant = "ParseError"
                  /\ c.err.inner = p.err
            /\ (p.tag = "Ok" /\ parsed.val # 0) => c = p
            /\ (p.tag # "Err" /\ c # p) => (parsed.tag = "Ok" /\ parsed.val = 0)
            /\ (parsed.tag = "Ok" /\ parsed.val = 0) =>
                  /\ p = Ok(0)
                  /\ c = Err(DivisionByZero)

C6_Witness ==
    /\ call.fn = "side_by_side"
    /\ call.s = <<>>
    /\ call.ran.out = Err(ParseIntError("Empty"))
    /\ call.ran_custom.out = Err(ParseError(ParseIntError("Empty")))

\* C7: in the unwrap/expect main, unwrap yields 84 and "Result: 84" is
\* printed first; then expect aborts the process with a diagnostic holding
\* "Failed to parse number"; after the abort no step runs, the second
\* "Result:" line is never printed and main never returns normally.
C7_UnwrapExpect ==
    /\ [](program = "main_unwrap" =>
            /\ status # "exited"
            /\ pc <= 3
            /\ pc >= 2 => result = 84
            /\ stdout = IF pc >= 3 THEN <<"Result: 84">> ELSE <<>>
            /\ status = "aborted" =>
                  /\ pc = 3
                  /\ stderr = "Failed to parse number" \o ": "
                                \o ParseIntErrorDebug(parse(TNotANumber).err))
    /\ [][status = "aborted" => UNCHANGED vars]_vars
    /\ (program = "main_unwrap") ~> (status = "aborted")

C7_Witness ==
    /\ program = "main_unwrap"
    /\ status = "aborted"
    /\ stdout = <<"Result: 84">>
    /\ stderr = "Failed to parse number: ParseIntError { kind: InvalidDigit }"

\* the texts an "Error: ..." line of a main can carry
ErrorTexts ==
    {"Cannot divide by zero", "Division by zero"}
    \cup {ParseIntErrorText(ParseIntError(k)) :
            k \in {"Empty", "InvalidDigit", "PosOverflow", "NegOverflow"}}

\* the lines that report an outcome: one "Result: ..." line for a success,
\* one "Error: ..." line for a failure
ReportsOf(out) ==
    IF out.tag = "Ok" THEN {"Result: " \o I32Text(out.val)}
    ELSE IF out.tag = "Err" THEN {"Error: " \o m : m \in ErrorTexts}
    ELSE {}

IsCallStmt(stmt) == "fn" \in DOMAIN stmt
CallsOf(body) == SelectSeq(body, IsCallStmt)

MatchMains == {"main_divide", "main_propagate", "main_custom"}

C10_OkNonZeroEven ==
    (call.fn = "parse_and_double_custom_err" /\ Out.tag = "Ok") =>
        /\ Out.val # 0
        /\ Out.val % 2 = 0

====
